---- MODULE Spec2Model ----
(***************************************************************************)
(* FormHydrator (Book01_Headless_WordPress/Chapter04/                      *)
(* form_hydrator_class_vanilla.js): the resilient GET client.              *)
(*                                                                         *)
(* One client instance.  A task is one call of a public getter             *)
(* (getFormIdByKey / getFormMetadata / getFormFields), i.e. one logical    *)
(* GET (_getWithCacheAndRetry) followed by the getter's shape guard.       *)
(* Every await of the code is a point where other tasks may run; the       *)
(* synchronous stretch between two awaits is one action.                   *)
(*                                                                         *)
(* Abstractions: one form (one key, one id), so there are three endpoint   *)
(* paths; one custom header name "X"; response bodies are drawn from a     *)
(* small set, "junk" being the body that fails every shape guard.          *)
(***************************************************************************)
EXTENDS Integers, Sequences, FiniteSets, TLC

\* ---------------------------------------------------------------- bounds
NTasks == 2
NSeqTasks == 1
MaxTime == 3
MaxAttempt == 4

\* ------------------------------------------------- configuration of the client
Threshold == 3
CoolOffMs == 1
MaxRetries == 2
RouteTTL == 1
RetryOnHTTP == {429, 500, 502, 503, 504}
BackoffBaseMs == 1
BackoffCapMs == 2
Jitter == FALSE

None == "none"
\* opts.ttlMs that is not a number
NoTtl == -1
Undef == "undefined"

Tasks == 1..NTasks
SeqTasks == 1..NSeqTasks
Paths == {"idByKey", "formMeta", "formFields"}
GetPaths == {"formMeta"}
HdrVals == {None, "a"}
NonceVals == {None, "c"}
InstNonce == "g"

VARIABLES now, instHdr, breaker, cache, inflight, task, probe, last, hyd, calc

vars == <<now, instHdr, breaker, cache, inflight, task, probe, last, hyd, calc>>

\* ------------------------------------------------------------ CircuitBreaker
NoEntry == [fails |-> 0, openedAt |-> 0]

canRequest_KeepsCount(br, k, t) ==
  LET e == br[k] IN
  IF e.openedAt = 0 THEN <<TRUE, br, FALSE>>
  ELSE IF (t - e.openedAt) < CoolOffMs THEN <<FALSE, br, FALSE>>
  ELSE <<TRUE, [br EXCEPT ![k].openedAt = 0], TRUE>>

canRequest_ShortWindow(br, k, t) ==
  LET e == br[k] IN
  IF e.openedAt = 0 THEN <<TRUE, br, FALSE>>
  ELSE IF (t - e.openedAt) < CoolOffMs - 1 THEN <<FALSE, br, FALSE>>
  ELSE <<TRUE, [br EXCEPT ![k] = NoEntry], TRUE>>

\* canRequest(k): <<allowed, new breaker state, half-open transition taken>>
canRequest(br, k, t) ==
  LET e == br[k] IN
  IF e.openedAt = 0 THEN <<TRUE, br, FALSE>>
  ELSE IF (t - e.openedAt) < CoolOffMs THEN <<FALSE, br, FALSE>>
  ELSE <<TRUE, [br EXCEPT ![k] = NoEntry], TRUE>>

recordSuccess_KeepsOpen(br, k) == [br EXCEPT ![k].fails = 0]

recordSuccess(br, k) == [br EXCEPT ![k] = NoEntry]

recordFailure_OpensLate(br, k, t) ==
  LET e == br[k]
      fails == e.fails + 1 IN
  IF fails > Threshold
    THEN [br EXCEPT ![k] = [fails |-> fails, openedAt |-> t]]
    ELSE [br EXCEPT ![k] = [fails |-> fails, openedAt |-> e.openedAt]]

recordFailure(br, k, t) ==
  LET e == br[k]
      fails == e.fails + 1 IN
  IF fails >= Threshold
    THEN [br EXCEPT ![k] = [fails |-> fails, openedAt |-> t]]
    ELSE [br EXCEPT ![k] = [fails |-> fails, openedAt |-> e.openedAt]]

\* ------------------------------------------------------------ SimpleTTLCache
\* A stored entry is [expires, etag, body]; etag = None is a legacy (unwrapped)
\* entry, expires = 0 never expires.
NoHit == [expires |-> 0, etag |-> None, body |-> Undef, present |-> FALSE]

cacheExpired_AtDeadline(c, k, t) == c[k].present /\ c[k].expires # 0 /\ t >= c[k].expires

cacheExpired(c, k, t) == c[k].present /\ c[k].expires # 0 /\ t > c[k].expires

\* get(key): expired entries are purged on read
cacheAfterGet(c, k, t) == IF cacheExpired(c, k, t) THEN [c EXCEPT ![k] = NoHit] ELSE c

\* _readCacheEntry(key): <<body, etag>>
readCacheEntry(c, k, t) ==
  IF ~c[k].present \/ cacheExpired(c, k, t) THEN <<Undef, None>>
  ELSE <<c[k].body, c[k].etag>>

\* _writeCacheEntry(key, body, ttlMs, etag) over SimpleTTLCache.set
writeCacheEntry(c, k, body, ttl, etag, t) ==
  [c EXCEPT ![k] = [expires |-> IF ttl > 0 THEN t + ttl ELSE 0,
                    etag |-> etag, body |-> body, present |-> TRUE]]

\* ------------------------------------------------------------ headers
\* _inflightKey(path, headers): the path and the per-call headers only
inflightKey(path, hdr) == <<path, hdr>>

\* this._inflight.set(inflightKey, p)
registerInflight(inf, ik, t) == [inf EXCEPT ![ik] = t]

\* _getOnce: base -> per-call -> nonce -> If-None-Match
composeHeaders(inst, hdr, nonce, etag) ==
  [X |-> IF hdr # None THEN hdr ELSE inst,
   nonce |-> IF nonce # None THEN nonce ELSE InstNonce,
   inm |-> etag]

NoReq == [X |-> None, nonce |-> None, inm |-> None]
\* a Retry-After header: absent, delay-seconds, an HTTP-date (as the time it
\* names), or text that is neither
NoRA == [kind |-> "none", v |-> 0]
\* err.retryAfterMs: undefined, or a number of milliseconds
NoMs == [has |-> FALSE, ms |-> 0]
\* (att, by, at, ra are history: the attempt and the call that failed, when,
\* and the Retry-After header of the response)
NoErr == [code |-> None, status |-> 0, abort |-> FALSE, cause |-> None, att |-> 0, by |-> 0,
          retryAfterMs |-> NoMs, at |-> 0, ra |-> NoRA]
NoRes == [data |-> Undef, etag |-> None, from304 |-> FALSE]

\* (rejects, rejAt: while every logical GET of the endpoint that ran its
\* operation has rejected, how many did and when the last did; Threshold + 1
\* once one has resolved or more than Threshold have rejected, and wherever
\* this history is not kept; recent: the ETag of the last 200 response received
\* for the endpoint; ttl: the TTL the last result was stored with)
NoLast == [valid |-> FALSE, etag |-> None, body |-> Undef, at |-> 0, bypass |-> FALSE,
           rejects |-> Threshold + 1, rejAt |-> 0, recent |-> None, ttl |-> 0]

\* history: a fetch of the endpoint was answered by r
received(l, path, r) == IF r.kind = "ok" THEN [l EXCEPT ![path].recent = r.etag] ELSE l

\* history for the outage claim: the n GETs of the endpoint so far have all
\* rejected, the last of them less than CoolOffMs ago
RejectedWithin(l, tm, n) == l.rejects = n /\ tm - l.rejAt < CoolOffMs

NoExpect == [on |-> FALSE, etag |-> None, body |-> Undef, bypass |-> FALSE]

\* history for the revalidation claim: what the last fetch of the endpoint gave,
\* when this call starts within the TTL of that fetch with no invalidation since
ExpectAt(l, tm) ==
  IF l.valid /\ tm <= l.at + RouteTTL
    THEN [on |-> TRUE, etag |-> l.etag, body |-> l.body, bypass |-> l.bypass]
    ELSE NoExpect

IdleTask ==
  [pc |-> "idle", path |-> "formMeta", hdr |-> None, nonce |-> None, bypass |-> FALSE,
   sig |-> FALSE, aborted |-> FALSE, attempt |-> 0, cBody |-> Undef, cEtag |-> None,
   req |-> NoReq, eff |-> NoReq, res |-> NoRes, err |-> NoErr, payload |-> Undef,
   owner |-> 0, nreq |-> 0, out |-> None, openAtStart |-> FALSE, during |-> FALSE,
   afterCancel |-> FALSE, peers |-> {}, expect |-> NoExpect,
   afterFirstRej |-> FALSE, afterThreeRej |-> FALSE, delay |-> 0, direct |-> FALSE,
   rfail |-> FALSE, wfail |-> FALSE, obs |-> None, ttl |-> NoTtl, inval |-> FALSE]

\* ------------------------------------------------------------ shape guards
\* _guardIdByKey / _guardMetadata / _guardFields: "junk" and undefined fail
\* every guard; "nullItem" is an array holding null, which only _guardFields
\* (array-ness) lets through
guardOK(path, body) ==
  /\ body # "junk" /\ body # Undef
  /\ (body = "nullItem" => path = "formFields")

mkErr(code, status, abort, cause, att, by) ==
  [NoErr EXCEPT !.code = code, !.status = status, !.abort = abort, !.cause = cause,
                !.att = att, !.by = by]

\* ------------------------------------------------------------ state record
\* The handlers are functions of the client's state so that a caller that
\* starts two getters in one synchronous turn (hydrate) composes them.
\* (probe and last are history: the call admitted as half-open probe of a key,
\* and the last result a logical GET obtained for a key)
Client == [breaker |-> breaker, cache |-> cache, inflight |-> inflight,
           task |-> task, probe |-> probe, last |-> last]

\* the spec's definition of Open (section 3), used to label calls
IsOpen(br, k, t) == br[k].openedAt # 0 /\ (t - br[k].openedAt) < CoolOffMs

\* _getOnce up to the await of fetch: the request as sent.  An onRequest
\* observer that throws does so at phase 'start', before fetch is called;
\* _getOnce wraps that as ENETWORK, and the observer throws again at phase
\* 'failure' in the catch block of _getWithRetry, whose promise rejects with
\* the observer's exception.  (nreq is history: the fetches of the call,
\* counted up to MaxRetries + 2)
issueRequest(tk, inst) ==
  IF tk.obs = "throws"
    THEN [tk EXCEPT !.pc = "threw", !.err = mkErr("EOBSERVER", 0, FALSE, None, tk.attempt, 0)]
    ELSE [tk EXCEPT !.pc = "fetching", !.nreq = IF @ > MaxRetries + 1 THEN @ ELSE @ + 1,
                    !.req = composeHeaders(inst, tk.hdr, tk.nonce, tk.cEtag)]

Pending(tk) == tk.pc \notin {"idle", "done"}

\* history for the coalescing claims: the calls pending when this one starts
\* that have the same path and the same effective headers
PeersAt(G, path, eff) ==
  {u \in DOMAIN G.task : Pending(G.task[u]) /\ G.task[u].path = path /\ G.task[u].eff = eff}

startGet_JoinsFirst(G, t, path, o, tm, inst) ==
  LET cr == canRequest(G.breaker, path, tm)
      rd == IF o.bypass \/ o.rfail THEN <<Undef, None>> ELSE readCacheEntry(G.cache, path, tm)
      c1 == IF o.bypass \/ o.rfail THEN G.cache ELSE cacheAfterGet(G.cache, path, tm)
      ik == inflightKey(path, o.hdr)
      base == [IdleTask EXCEPT !.path = path, !.hdr = o.hdr, !.nonce = o.nonce,
                 !.bypass = o.bypass, !.sig = o.sig, !.rfail = o.rfail, !.wfail = o.wfail,
                 !.obs = o.obs, !.ttl = o.ttl,
                 !.eff = composeHeaders(inst, o.hdr, o.nonce, rd[2]),
                 !.openAtStart = IsOpen(G.breaker, path, tm),
                 !.during = (G.probe[path] # 0),
                 !.peers = PeersAt(G, path, composeHeaders(inst, o.hdr, o.nonce, rd[2])),
                 !.expect = ExpectAt(G.last[path], tm),
                 !.afterFirstRej = RejectedWithin(G.last[path], tm, 1),
                 !.afterThreeRej = RejectedWithin(G.last[path], tm, Threshold)]
      pr == IF cr[3] THEN [G.probe EXCEPT ![path] = t] ELSE G.probe
  IN
  IF G.inflight[ik] # 0 THEN
    [G EXCEPT !.cache = c1,
        !.task[t] = [base EXCEPT !.pc = "joined", !.owner = G.inflight[ik],
                                 !.cBody = rd[1], !.cEtag = rd[2]]]
  ELSE IF ~cr[1] THEN
    [G EXCEPT !.task[t] = [base EXCEPT !.pc = "done", !.out = "err",
        !.err = mkErr("ECIRCUIT_OPEN", 0, FALSE, None, 0, t)]]
  ELSE
    [G EXCEPT !.breaker = cr[2], !.cache = c1, !.probe = pr,
        !.inflight = registerInflight(@, ik, t),
        !.task[t] = issueRequest([base EXCEPT !.cBody = rd[1], !.cEtag = rd[2]], inst)]

\* _getWithCacheAndRetry up to its first await (breaker, cache, coalescing,
\* first fetch, registration)
startGet(G, t, path, o, tm, inst) ==
  LET cr == canRequest(G.breaker, path, tm)
      rd == IF o.bypass \/ o.rfail THEN <<Undef, None>> ELSE readCacheEntry(G.cache, path, tm)
      c1 == IF o.bypass \/ o.rfail THEN G.cache ELSE cacheAfterGet(G.cache, path, tm)
      ik == inflightKey(path, o.hdr)
      base == [IdleTask EXCEPT !.path = path, !.hdr = o.hdr, !.nonce = o.nonce,
                 !.bypass = o.bypass, !.sig = o.sig, !.rfail = o.rfail, !.wfail = o.wfail,
                 !.obs = o.obs, !.ttl = o.ttl,
                 !.eff = composeHeaders(inst, o.hdr, o.nonce, rd[2]),
                 !.openAtStart = IsOpen(G.breaker, path, tm),
                 !.during = (G.probe[path] # 0),
                 !.peers = PeersAt(G, path, composeHeaders(inst, o.hdr, o.nonce, rd[2])),
                 !.expect = ExpectAt(G.last[path], tm),
                 !.afterFirstRej = RejectedWithin(G.last[path], tm, 1),
                 !.afterThreeRej = RejectedWithin(G.last[path], tm, Threshold)]
      pr == IF cr[3] THEN [G.probe EXCEPT ![path] = t] ELSE G.probe
  IN
  IF ~cr[1] THEN
    [G EXCEPT !.task[t] = [base EXCEPT !.pc = "done", !.out = "err",
        !.err = mkErr("ECIRCUIT_OPEN", 0, FALSE, None, 0, t)]]
  ELSE IF G.inflight[ik] # 0 THEN
    [G EXCEPT !.breaker = cr[2], !.cache = c1, !.probe = pr,
        !.task[t] = [base EXCEPT !.pc = "joined", !.owner = G.inflight[ik],
                                 !.cBody = rd[1], !.cEtag = rd[2]]]
  ELSE
    [G EXCEPT !.breaker = cr[2], !.cache = c1, !.probe = pr,
        !.inflight = registerInflight(@, ik, t),
        !.task[t] = issueRequest([base EXCEPT !.cBody = rd[1], !.cEtag = rd[2]], inst)]

Install(G) ==
  /\ breaker' = G.breaker
  /\ cache' = G.cache
  /\ inflight' = G.inflight
  /\ task' = G.task
  /\ probe' = G.probe
  /\ last' = G.last

\* the options of a call (rfail, wfail: the injected cache throws on the read,
\* on the write of this call; obs: no onRequest observer, one that returns, one
\* that throws; ttl: the ttlMs override, if any)
DefaultOpts == [hdr |-> None, nonce |-> None, bypass |-> FALSE, sig |-> FALSE,
                rfail |-> FALSE, wfail |-> FALSE, obs |-> None, ttl |-> NoTtl]

\* a public getter is called on one of the paths P with one of the options O
Call(t, P, O) ==
  /\ task[t].pc = "idle"
  /\ \E path \in P, o \in O :
        Install(startGet(Client, t, path, o, now, instHdr))
  /\ UNCHANGED <<now, instHdr, hyd, calc>>

\* a public getter is called with an empty key or a non-finite id: it throws
\* before its logical GET
CallBadArgs(t) ==
  /\ task[t].pc = "idle"
  /\ task' = [task EXCEPT ![t] = [IdleTask EXCEPT !.pc = "done", !.out = "err",
                                      !.err = mkErr("EBADARGS", 0, FALSE, None, 0, t)]]
  /\ UNCHANGED <<now, instHdr, breaker, cache, inflight, probe, last, hyd, calc>>

\* ------------------------------------------------------------ network
CallerAbortResp == [kind |-> "caller", status |-> 0, etag |-> None, body |-> Undef, ra |-> NoRA]

Max(a, b) == IF a > b THEN a ELSE b
Min(a, b) == IF a < b THEN a ELSE b

\* _getOnce's reading of Retry-After at time tm: Number(ra) seconds times 1000,
\* else Date.parse(ra) minus Date.now() and not below 0, else undefined
retryAfterMs(ra, tm) ==
  IF ra.kind = "secs" THEN [has |-> TRUE, ms |-> ra.v * 1000]
  ELSE IF ra.kind = "date" THEN [has |-> TRUE, ms |-> Max(0, ra.v - tm)]
  ELSE NoMs

\* _getOnce after the await of fetch, at time tm: <<ok, result, error>>
getOnceResult(tk, r, t, tm) ==
  IF r.kind = "http" /\ r.status = 304 THEN
    <<TRUE, [data |-> Undef, etag |-> tk.req.inm, from304 |-> TRUE], NoErr>>
  ELSE IF r.kind = "ok" THEN
    <<TRUE, [data |-> r.body, etag |-> r.etag, from304 |-> FALSE], NoErr>>
  ELSE IF r.kind = "http" THEN
    <<FALSE, NoRes, [mkErr("EHTTP", r.status, FALSE, None, tk.attempt, t)
                       EXCEPT !.retryAfterMs = retryAfterMs(r.ra, tm), !.at = tm, !.ra = r.ra]>>
  ELSE IF r.kind = "network" THEN
    <<FALSE, NoRes, mkErr("ENETWORK", 0, FALSE, None, tk.attempt, t)>>
  ELSE
    <<FALSE, NoRes, mkErr("ETIMEDOUT", 0, TRUE, r.kind, tk.attempt, t)>>

\* _getWithRetry's classification of a failed attempt
retriable(err) ==
  \/ err.code = "ENETWORK"
  \/ err.abort
  \/ (err.status # 0 /\ err.status \in RetryOnHTTP)

RECURSIVE Pow2(_)
Pow2(n) == IF n <= 0 THEN 1 ELSE 2 * Pow2(n - 1)

\* _computeBackoffDelay(attempt, base, cap, jitter), rand the jitter drawn
computeBackoffDelay(attempt, base, cap, jitter, rand) ==
  LET exp == Min(cap, base * Pow2(attempt - 1)) IN
  IF ~jitter THEN exp ELSE (exp + 2 * rand) \div 2

\* the delay before the next attempt
retryDelay(err, attempt) ==
  IF err.retryAfterMs.has THEN err.retryAfterMs.ms
  ELSE computeBackoffDelay(attempt, BackoffBaseMs, BackoffCapMs, Jitter, 0)

\* _getWithRetry around one settled _getOnce (afterCancel is history: an
\* attempt of this call failed because the caller's signal fired)
afterAttempt_NoRetryLeft(tk, r, t, tm) ==
  LET g == getOnceResult(tk, r, t, tm) IN
  IF g[1] THEN [tk EXCEPT !.pc = "got", !.res = g[2]]
  ELSE LET attempt == tk.attempt + 1 IN
    IF ~retriable(g[3]) \/ attempt >= MaxRetries
      THEN [tk EXCEPT !.pc = "threw", !.attempt = attempt, !.err = g[3]]
      ELSE [tk EXCEPT !.pc = "sleeping", !.attempt = attempt, !.err = g[3],
                      !.delay = retryDelay(g[3], attempt)]

afterAttempt_RetriesForever(tk, r, t, tm) ==
  LET g == getOnceResult(tk, r, t, tm) IN
  IF g[1] THEN [tk EXCEPT !.pc = "got", !.res = g[2]]
  ELSE LET attempt == Min(tk.attempt + 1, MaxRetries)
           tc == [tk EXCEPT !.afterCancel = @ \/ (r.kind = "caller")] IN
    IF ~retriable(g[3])
      THEN [tc EXCEPT !.pc = "threw", !.attempt = attempt, !.err = g[3]]
      ELSE [tc EXCEPT !.pc = "sleeping", !.attempt = attempt, !.err = g[3],
                      !.delay = retryDelay(g[3], attempt)]

afterAttempt_CapsRetryAfter(tk, r, t, tm) ==
  LET g == getOnceResult(tk, r, t, tm) IN
  IF g[1] THEN [tk EXCEPT !.pc = "got", !.res = g[2]]
  ELSE LET attempt == tk.attempt + 1
           tc == [tk EXCEPT !.afterCancel = @ \/ (r.kind = "caller")] IN
    IF ~retriable(g[3]) \/ attempt > MaxRetries
      THEN [tc EXCEPT !.pc = "threw", !.attempt = attempt, !.err = g[3]]
      ELSE [tc EXCEPT !.pc = "sleeping", !.attempt = attempt, !.err = g[3],
                      !.delay = Min(BackoffCapMs, retryDelay(g[3], attempt))]

afterAttempt(tk, r, t, tm) ==
  LET g == getOnceResult(tk, r, t, tm) IN
  IF g[1] THEN [tk EXCEPT !.pc = "got", !.res = g[2]]
  ELSE LET attempt == tk.attempt + 1
           tc == [tk EXCEPT !.afterCancel = @ \/ (r.kind = "caller")] IN
    IF ~retriable(g[3]) \/ attempt > MaxRetries
      THEN [tc EXCEPT !.pc = "threw", !.attempt = attempt, !.err = g[3]]
      ELSE [tc EXCEPT !.pc = "sleeping", !.attempt = attempt, !.err = g[3],
                      !.delay = retryDelay(g[3], attempt)]

\* the pending fetch settles with one of the responses R (an aborted signal
\* makes fetch reject with AbortError)
Respond(t, R) ==
  /\ task[t].pc = "fetching"
  /\ \E r \in (IF task[t].aborted THEN {CallerAbortResp} ELSE R) :
        /\ task' = [task EXCEPT ![t] = afterAttempt(task[t], r, t, now)]
        /\ last' = received(last, task[t].path, r)
  /\ UNCHANGED <<now, instHdr, breaker, cache, inflight, probe, hyd, calc>>

\* the caller's AbortSignal fires
CallerCancel(t) ==
  /\ task[t].pc \in {"fetching", "sleeping"}
  /\ task[t].sig /\ ~task[t].aborted
  /\ task' = [task EXCEPT ![t].aborted = TRUE]
  /\ UNCHANGED <<now, instHdr, breaker, cache, inflight, probe, last, hyd, calc>>

Wake_ChecksBreaker(t) ==
  /\ task[t].pc = "sleeping"
  /\ task' = [task EXCEPT ![t] =
        IF canRequest(breaker, task[t].path, now)[1]
          THEN issueRequest([task[t] EXCEPT !.err = NoErr], instHdr)
          ELSE [task[t] EXCEPT !.pc = "threw",
                               !.err = mkErr("ECIRCUIT_OPEN", 0, FALSE, None, task[t].attempt, t)]]
  /\ UNCHANGED <<now, instHdr, breaker, cache, inflight, probe, last, hyd, calc>>

\* _sleep(delay) ends: the next _getOnce
Wake(t) ==
  /\ task[t].pc = "sleeping"
  /\ task' = [task EXCEPT ![t] = issueRequest([task[t] EXCEPT !.err = NoErr], instHdr)]
  /\ UNCHANGED <<now, instHdr, breaker, cache, inflight, probe, last, hyd, calc>>

payloadOf_IgnoresCache(tk) == tk.res.data

\* the payload the inner operation resolves with
payloadOf(tk) ==
  IF tk.res.from304 THEN (IF tk.cBody # Undef THEN tk.cBody ELSE tk.res.data)
  ELSE tk.res.data

\* effTTL: the ttlMs of the call if it is a number, the TTL of the route if not
effTTL(tk) == IF tk.ttl # NoTtl THEN tk.ttl ELSE RouteTTL

writeBack_WriteFailureRejects(G, t, tm) ==
  LET tk == G.task[t]
      payload == payloadOf(tk) IN
  IF tk.wfail THEN
    [G EXCEPT !.task[t] = [tk EXCEPT !.pc = "threw",
                                     !.err = mkErr("ECACHE", 0, FALSE, None, tk.attempt, t)]]
  ELSE
  [G EXCEPT !.cache = IF tk.bypass THEN @
                      ELSE writeCacheEntry(@, tk.path, payload, effTTL(tk), tk.res.etag, tm),
            !.last[tk.path] = [@ EXCEPT !.valid = TRUE, !.etag = tk.res.etag,
                                 !.body = payload, !.at = tm, !.bypass = tk.bypass,
                                 !.ttl = effTTL(tk)],
            !.task[t] = [tk EXCEPT !.pc = "resolved", !.payload = payload]]

\* the inner async operation p after _getWithRetry returned
writeBack(G, t, tm) ==
  LET tk == G.task[t]
      payload == payloadOf(tk) IN
  [G EXCEPT !.cache = IF tk.bypass \/ tk.wfail THEN @
                      ELSE writeCacheEntry(@, tk.path, payload, effTTL(tk), tk.res.etag, tm),
            !.last[tk.path] = [@ EXCEPT !.valid = TRUE, !.etag = tk.res.etag,
                                 !.body = payload, !.at = tm, !.bypass = tk.bypass,
                                 !.ttl = effTTL(tk)],
            !.task[t] = [tk EXCEPT !.pc = "resolved", !.payload = payload]]

WriteBack_GuardsFirst(t) ==
  /\ task[t].pc = "got" /\ ~task[t].direct
  /\ Install(IF guardOK(task[t].path, payloadOf(task[t]))
               THEN writeBack(Client, t, now)
               ELSE [Client EXCEPT !.task[t] = [@ EXCEPT !.pc = "resolved",
                                                         !.payload = payloadOf(task[t])]])
  /\ UNCHANGED <<now, instHdr, hyd, calc>>

WriteBack(t) ==
  /\ task[t].pc = "got" /\ ~task[t].direct
  /\ Install(writeBack(Client, t, now))
  /\ UNCHANGED <<now, instHdr, hyd, calc>>

guarded_RetriesBadShape(tk, payload, t) ==
  IF guardOK(tk.path, payload)
    THEN [tk EXCEPT !.pc = "done", !.out = "ok", !.payload = payload]
    ELSE [tk EXCEPT !.pc = "sleeping", !.payload = payload]

\* the getter's outcome once its logical GET gave `payload`
guarded(tk, payload, t) ==
  IF guardOK(tk.path, payload)
    THEN [tk EXCEPT !.pc = "done", !.out = "ok", !.payload = payload]
    ELSE [tk EXCEPT !.pc = "done", !.out = "err", !.payload = payload,
                    !.err = mkErr("EBADSHAPE", 0, FALSE, None, 0, t)]

clearProbe(pr, k, t) == IF pr[k] = t THEN [pr EXCEPT ![k] = 0] ELSE pr

settle_LeaksOnFailure(G, t, tm) ==
  LET tk == G.task[t]
      ik == inflightKey(tk.path, tk.hdr) IN
  IF tk.pc = "resolved" THEN
    [G EXCEPT !.breaker = recordSuccess(@, tk.path),
              !.last[tk.path] = [@ EXCEPT !.rejects = Threshold + 1, !.rejAt = 0],
              !.inflight[ik] = 0,
              !.probe = clearProbe(@, tk.path, t),
              !.task[t] = guarded(tk, tk.payload, t)]
  ELSE
    [G EXCEPT !.breaker = recordFailure(@, tk.path, tm),
              !.last[tk.path] = IF @.rejects >= Threshold
                                  THEN [@ EXCEPT !.rejects = Threshold + 1, !.rejAt = 0]
                                  ELSE [@ EXCEPT !.rejects = @ + 1, !.rejAt = tm],
              !.probe = clearProbe(@, tk.path, t),
              !.task[t] = [tk EXCEPT !.pc = "done", !.out = "err"]]

\* _getWithCacheAndRetry after `await p`: breaker update, registry cleanup
settle(G, t, tm) ==
  LET tk == G.task[t]
      ik == inflightKey(tk.path, tk.hdr) IN
  IF tk.pc = "resolved" THEN
    [G EXCEPT !.breaker = recordSuccess(@, tk.path),
              !.last[tk.path] = [@ EXCEPT !.rejects = Threshold + 1, !.rejAt = 0],
              !.inflight[ik] = 0,
              !.probe = clearProbe(@, tk.path, t),
              !.task[t] = guarded(tk, tk.payload, t)]
  ELSE
    [G EXCEPT !.breaker = recordFailure(@, tk.path, tm),
              !.last[tk.path] = IF @.rejects >= Threshold
                                  THEN [@ EXCEPT !.rejects = Threshold + 1, !.rejAt = 0]
                                  ELSE [@ EXCEPT !.rejects = @ + 1, !.rejAt = tm],
              !.inflight[ik] = 0,
              !.probe = clearProbe(@, tk.path, t),
              !.task[t] = [tk EXCEPT !.pc = "done", !.out = "err"]]

Settle(t) ==
  /\ task[t].pc \in {"resolved", "threw"} /\ ~task[t].direct
  /\ Install(settle(Client, t, now))
  /\ UNCHANGED <<now, instHdr, hyd, calc>>

joinSettle_RecordsToo(G, t) ==
  LET tk == G.task[t]
      ow == G.task[tk.owner] IN
  [G EXCEPT !.probe = clearProbe(@, tk.path, t),
            !.breaker = IF ow.out = "ok" \/ ow.err.code = "EBADSHAPE"
                          THEN recordSuccess(@, tk.path)
                          ELSE recordFailure(@, tk.path, now),
            !.task[t] = IF ow.out = "ok" \/ ow.err.code = "EBADSHAPE"
                          THEN guarded(tk, ow.payload, t)
                          ELSE [tk EXCEPT !.pc = "done", !.out = "err", !.err = ow.err]]

\* a caller that was handed the registered promise settles with it
joinSettle(G, t) ==
  LET tk == G.task[t]
      ow == G.task[tk.owner] IN
  [G EXCEPT !.probe = clearProbe(@, tk.path, t),
            !.task[t] = IF ow.out = "ok" \/ ow.err.code = "EBADSHAPE"
                          THEN guarded(tk, ow.payload, t)
                          ELSE [tk EXCEPT !.pc = "done", !.out = "err", !.err = ow.err]]

JoinSettle(t) ==
  /\ task[t].pc = "joined"
  /\ task[task[t].owner].pc = "done"
  /\ Install(joinSettle(Client, t))
  /\ UNCHANGED <<now, instHdr, hyd, calc>>

\* the caller drops the settled call; the slot is free for a new call
Return(t) ==
  /\ task[t].pc = "done"
  /\ \A u \in DOMAIN task :
        task[u].owner # t /\ t \notin task[u].peers
  /\ task' = [task EXCEPT ![t] = IdleTask]
  /\ UNCHANGED <<now, instHdr, breaker, cache, inflight, probe, last, hyd, calc>>

\* the history of the endpoint's last result ends with its cache entry
forget(l, ks) ==
  [k \in Paths |->
     IF k \in ks THEN [NoLast EXCEPT !.rejects = l[k].rejects, !.rejAt = l[k].rejAt,
                                     !.recent = l[k].recent]
     ELSE l[k]]

\* history: the logical GETs of the endpoints ks whose operation has not yet
\* completed when the entries that the cache c holds for ks are deleted
overtaken(tasks, c, ks) ==
  [u \in DOMAIN tasks |->
     IF tasks[u].pc \in {"fetching", "sleeping", "got"} /\ ~tasks[u].direct
        /\ tasks[u].path \in ks /\ c[tasks[u].path].present
       THEN [tasks[u] EXCEPT !.inval = TRUE]
       ELSE tasks[u]]

\* invalidateByFormId(id): the metadata and fields entries are deleted
invalidateByFormId(c) == [c EXCEPT !["formMeta"] = NoHit, !["formFields"] = NoHit]

InvalidateByFormId_Fences ==
  /\ cache' = invalidateByFormId(cache)
  /\ last' = forget(last, {"formMeta", "formFields"})
  /\ task' = [u \in DOMAIN task |->
                 IF task[u].pc \in {"fetching", "sleeping", "got"} /\ ~task[u].direct
                      /\ task[u].path \in {"formMeta", "formFields"}
                      /\ cache[task[u].path].present
                   THEN [task[u] EXCEPT !.inval = TRUE, !.bypass = TRUE]
                   ELSE task[u]]
  /\ UNCHANGED <<now, instHdr, breaker, inflight, probe, hyd, calc>>

InvalidateByFormId ==
  /\ cache' = invalidateByFormId(cache)
  /\ last' = forget(last, {"formMeta", "formFields"})
  /\ task' = overtaken(task, cache, {"formMeta", "formFields"})
  /\ UNCHANGED <<now, instHdr, breaker, inflight, probe, hyd, calc>>

\* invalidateByFormKey(key) up to its first await: the id-lookup entry is
\* deleted (direct marks a call that runs _getWithRetry with no cache,
\* breaker or in-flight registry around it)
InvalidateByFormKey(t) ==
  /\ task[t].pc = "idle"
  /\ cache' = [cache EXCEPT !["idByKey"] = NoHit]
  /\ last' = forget(last, {"idByKey"})
  /\ task' = [overtaken(task, cache, {"idByKey"}) EXCEPT
                 ![t] = [IdleTask EXCEPT !.pc = "deleted", !.path = "idByKey", !.direct = TRUE]]
  /\ UNCHANGED <<now, instHdr, breaker, inflight, probe, hyd, calc>>

\* invalidateByFormKey: _getWithRetry(idByKey path, {}) issues its first fetch
InvalidateResolve(t) ==
  /\ task[t].pc = "deleted"
  /\ task' = [task EXCEPT ![t] = issueRequest(task[t], instHdr)]
  /\ UNCHANGED <<now, instHdr, breaker, cache, inflight, probe, last, hyd, calc>>

\* the id was re-resolved: res.data.id is a number
idResolved(tk) == tk.pc = "got" /\ guardOK("idByKey", tk.res.data)

invalidateFinish_Rethrows(G, t) ==
  LET tk == G.task[t] IN
  IF idResolved(tk) THEN
    [G EXCEPT !.cache = invalidateByFormId(@),
              !.last = forget(@, {"formMeta", "formFields"}),
              !.task = [overtaken(@, G.cache, {"formMeta", "formFields"}) EXCEPT
                          ![t] = [tk EXCEPT !.pc = "done", !.out = "ok"]]]
  ELSE [G EXCEPT !.task[t] = [tk EXCEPT !.pc = "done",
                                        !.out = IF tk.pc = "threw" THEN "err" ELSE "ok"]]

\* invalidateByFormKey after _getWithRetry settled: the entries of the id are
\* deleted if it was resolved; a failure is swallowed
invalidateFinish(G, t) ==
  LET tk == G.task[t] IN
  IF idResolved(tk) THEN
    [G EXCEPT !.cache = invalidateByFormId(@),
              !.last = forget(@, {"formMeta", "formFields"}),
              !.task = [overtaken(@, G.cache, {"formMeta", "formFields"}) EXCEPT
                          ![t] = [tk EXCEPT !.pc = "done", !.out = "ok"]]]
  ELSE [G EXCEPT !.task[t] = [tk EXCEPT !.pc = "done", !.out = "ok"]]

InvalidateFinish(t) ==
  /\ task[t].pc \in {"got", "threw"} /\ task[t].direct
  /\ Install(invalidateFinish(Client, t))
  /\ UNCHANGED <<now, instHdr, hyd, calc>>

\* setHeader / removeHeader
SetHeader ==
  /\ \E v \in HdrVals : v # instHdr /\ instHdr' = v
  /\ UNCHANGED <<now, breaker, cache, inflight, task, probe, last, hyd, calc>>

\* ------------------------------------------------------------ hydrate
\* hydrate(formKey) uses three getter calls: the slots of its id lookup, its
\* metadata call and its fields call
IdSlot == 1
MetaSlot == 2
FieldsSlot == 3
HydrateTasks == {IdSlot, MetaSlot, FieldsSlot}
\* a getter called on its own while a hydrate runs
ExtraSlot == 4
NoPayload == [id |-> Undef, metadata |-> Undef, fields |-> Undef, fieldsRaw |-> Undef]
\* one evaluation of _computeBackoffDelay: its arguments and, once it has
\* returned, its value
NoCalc == [attempt |-> 0, base |-> 0, cap |-> 0, jitter |-> FALSE, done |-> FALSE, delay |-> 0]
IdleHyd == [pc |-> "idle", out |-> None, err |-> NoErr, payload |-> NoPayload]

\* normalizeFields(fields): maps over the items, reading f.id of each
normalizeThrows(body) == body = "nullItem"
normalizeFields(body) == <<"normalized", body>>

\* Promise.all over the two getter calls: rejects with the first rejection,
\* fulfils when both are fulfilled
promiseAll_Any(a, b) ==
  IF a.pc = "done" /\ a.out = "err" THEN <<"err", a.err>>
  ELSE IF b.pc = "done" /\ b.out = "err" THEN <<"err", b.err>>
  ELSE IF (a.pc = "done" /\ a.out = "ok") \/ (b.pc = "done" /\ b.out = "ok") THEN <<"ok", NoErr>>
  ELSE <<"pending", NoErr>>

promiseAll(a, b) ==
  IF a.pc = "done" /\ a.out = "err" THEN <<"err", a.err>>
  ELSE IF b.pc = "done" /\ b.out = "err" THEN <<"err", b.err>>
  ELSE IF a.pc = "done" /\ a.out = "ok" /\ b.pc = "done" /\ b.out = "ok" THEN <<"ok", NoErr>>
  ELSE <<"pending", NoErr>>

fanOut_OneAtATime(G, tm, inst) == startGet(G, MetaSlot, "formMeta", DefaultOpts, tm, inst)

\* the two getters hydrate calls in one synchronous turn, in this order
fanOut(G, tm, inst) ==
  startGet(startGet(G, MetaSlot, "formMeta", DefaultOpts, tm, inst),
           FieldsSlot, "formFields", DefaultOpts, tm, inst)

\* hydrate(formKey) up to its first await: getFormIdByKey is called
HydrateStart ==
  /\ hyd.pc = "idle"
  /\ \A s \in HydrateTasks : task[s].pc = "idle"
  /\ Install(startGet(Client, IdSlot, "idByKey", DefaultOpts, now, instHdr))
  /\ hyd' = [hyd EXCEPT !.pc = "id"]
  /\ UNCHANGED <<now, instHdr, calc>>

\* the id lookup settled: hydrate rejects, or calls both getters
HydrateFan ==
  /\ hyd.pc = "id" /\ task[IdSlot].pc = "done"
  /\ IF task[IdSlot].out = "ok"
       THEN /\ Install(fanOut(Client, now, instHdr))
            /\ hyd' = [hyd EXCEPT !.pc = "both"]
       ELSE /\ hyd' = [hyd EXCEPT !.pc = "done", !.out = "err", !.err = task[IdSlot].err]
            /\ UNCHANGED <<breaker, cache, inflight, task, probe, last>>
  /\ UNCHANGED <<now, instHdr, calc>>

\* Promise.all settled: hydrate normalizes the fields and returns, or rejects
HydrateJoin ==
  /\ hyd.pc = "both"
  /\ LET pa == promiseAll(task[MetaSlot], task[FieldsSlot]) IN
       /\ pa[1] # "pending"
       /\ hyd' = IF pa[1] = "err"
                   THEN [hyd EXCEPT !.pc = "done", !.out = "err", !.err = pa[2]]
                 ELSE IF normalizeThrows(task[FieldsSlot].payload)
                   THEN [hyd EXCEPT !.pc = "done", !.out = "err",
                           !.err = mkErr("TypeError", 0, FALSE, None, 0, 0)]
                 ELSE [hyd EXCEPT !.pc = "done", !.out = "ok",
                         !.payload = [id |-> task[IdSlot].payload,
                                      metadata |-> task[MetaSlot].payload,
                                      fields |-> normalizeFields(task[FieldsSlot].payload),
                                      fieldsRaw |-> task[FieldsSlot].payload]]
  /\ UNCHANGED <<now, instHdr, breaker, cache, inflight, task, probe, last, calc>>

\* the caller drops the settled hydrate once its getter calls have settled
HydrateReturn ==
  /\ hyd.pc = "done"
  /\ \A s \in HydrateTasks : task[s].pc \in {"idle", "done"}
  /\ \A u \in DOMAIN task \ HydrateTasks :
        task[u].owner \notin HydrateTasks /\ task[u].peers \cap HydrateTasks = {}
  /\ hyd' = IdleHyd
  /\ task' = [s \in DOMAIN task |-> IF s \in HydrateTasks THEN IdleTask ELSE task[s]]
  /\ UNCHANGED <<now, instHdr, breaker, cache, inflight, probe, last, calc>>

InitClient(n) ==
  /\ now = 1
  /\ instHdr = None
  /\ breaker = [k \in Paths |-> NoEntry]
  /\ cache = [k \in Paths |-> NoHit]
  /\ inflight = [k \in Paths \X HdrVals |-> 0]
  /\ task = [t \in 1..n |-> IdleTask]
  /\ probe = [k \in Paths |-> 0]
  /\ last = [k \in Paths |-> NoLast]
  /\ hyd = IdleHyd

InitWith(n) == InitClient(n) /\ calc = NoCalc

Init == InitWith(NTasks)

Tick ==
  /\ now < MaxTime
  /\ now' = now + 1
  /\ UNCHANGED <<instHdr, breaker, cache, inflight, task, probe, last, hyd, calc>>

Ok(etag, body) == [kind |-> "ok", status |-> 200, etag |-> etag, body |-> body, ra |-> NoRA]
Http(status) == [kind |-> "http", status |-> status, etag |-> None, body |-> Undef, ra |-> NoRA]
Fail(kind) == [kind |-> kind, status |-> 0, etag |-> None, body |-> Undef, ra |-> NoRA]
\* an error response carrying Retry-After
HttpRA(status, kind, v) == [Http(status) EXCEPT !.ra = [kind |-> kind, v |-> v]]

\* ---- the retry engine: one path, default headers, every kind of failure
RetryOpts == {[DefaultOpts EXCEPT !.sig = b] : b \in BOOLEAN}
RetryResponses == {Ok(None, "b1"), Http(404), Http(503), Fail("network"), Fail("timeout")}

NextRetry ==
  \/ \E t \in Tasks : Call(t, GetPaths, RetryOpts)
  \/ \E t \in Tasks : Respond(t, RetryResponses)
  \/ \E t \in Tasks : CallerCancel(t)
  \/ \E t \in Tasks : Wake(t)
  \/ \E t \in Tasks : WriteBack(t)
  \/ \E t \in Tasks : Settle(t)
  \/ \E t \in Tasks : JoinSettle(t)
  \/ \E t \in Tasks : Return(t)

SpecRetry == Init /\ [][NextRetry]_vars

\* a logical GET that ran its own operation (was neither refused nor joined)
Owns(tk) == tk.owner = 0 /\ tk.nreq > 0

\* C3: a logical GET makes at most 1 + MaxRetries fetches; k failed attempts
\* followed by a success took exactly k + 1 fetches; a GET that gave up on a
\* retriable failure made exactly MaxRetries + 1 fetches and surfaces the error
\* of the last of them.
C3_AttemptsBounded ==
  \A t \in DOMAIN task :
    LET tk == task[t] IN
    /\ tk.nreq <= 1 + MaxRetries
    /\ (tk.pc = "got" => tk.nreq = tk.attempt + 1)
    /\ (Owns(tk) /\ tk.pc \in {"threw", "done"} /\ tk.out # "ok" /\ tk.err.code # "EBADSHAPE"
          /\ retriable(tk.err)
        => /\ tk.nreq = MaxRetries + 1
           /\ tk.err.att = MaxRetries
           /\ tk.err.by = t)

\* two retriable failures, then success: three fetches; and a GET that gave up
C3_Witness ==
  /\ \E t \in DOMAIN task : task[t].pc = "done" /\ task[t].out = "ok"
        /\ task[t].attempt = 2 /\ task[t].nreq = 3
  /\ \E t \in DOMAIN task : task[t].pc = "done" /\ task[t].out = "err" /\ Owns(task[t])
        /\ task[t].err.status = 503 /\ task[t].nreq = MaxRetries + 1

\* C5 as stated: a failed attempt is retried only if it is a network failure,
\* a timeout of the client's own deadline or a retriable HTTP status; a
\* non-retriable status on the first attempt ends the GET after one fetch.
C5_RetryOnlyTransient ==
  \A t \in DOMAIN task :
    LET tk == task[t] IN
    /\ (tk.pc = "sleeping" =>
           \/ tk.err.code = "ENETWORK"
           \/ (tk.err.code = "ETIMEDOUT" /\ tk.err.cause = "timeout")
           \/ tk.err.status \in RetryOnHTTP)
    /\ (tk.err.code = "EHTTP" /\ tk.err.status \notin RetryOnHTTP /\ tk.err.by = t
           => tk.pc \in {"threw", "done"} /\ tk.nreq = tk.err.att + 1)

\* C9 as stated: once an attempt failed because the caller's signal fired, the
\* logical GET issues no further fetch.
C9_NoRetryAfterCallerAbort ==
  \A t \in DOMAIN task : ~(task[t].afterCancel /\ task[t].pc = "fetching")

\* ---- coalescing: per-call headers, per-call nonce, instance header changes
HeaderOpts == {[DefaultOpts EXCEPT !.hdr = h, !.nonce = n] : h \in HdrVals, n \in NonceVals}
HeaderResponses == {Ok(None, "b2"), Http(404)}

NextHeaders ==
  \/ SetHeader
  \/ \E t \in Tasks : Call(t, GetPaths, HeaderOpts)
  \/ \E t \in Tasks : Respond(t, HeaderResponses)
  \/ \E t \in Tasks : WriteBack(t)
  \/ \E t \in Tasks : Settle(t)
  \/ \E t \in Tasks : JoinSettle(t)
  \/ \E t \in Tasks : Return(t)

SpecHeaders == Init /\ [][NextHeaders]_vars

\* the result of the logical GET of a settled call: the shape guard is the
\* getter's, after the GET
GetResult(tk) ==
  IF tk.out = "ok" \/ tk.err.code = "EBADSHAPE" THEN <<"ok", tk.payload>> ELSE <<"err", tk.err>>

Refused(tk) == tk.pc = "done" /\ tk.err.code = "ECIRCUIT_OPEN" /\ tk.err.att = 0 /\ tk.owner = 0
                 /\ tk.nreq = 0

\* C1 as stated: a call that starts while a call for the same path with
\* identical effective headers is pending issues no fetch of its own and
\* settles with the same result as that call.
C1_SameEffectiveHeaders ==
  \A t \in DOMAIN task : \A u \in task[t].peers :
    /\ task[t].nreq = 0
    /\ (task[t].pc = "done" /\ task[u].pc = "done"
          => GetResult(task[t]) = GetResult(task[u]))

\* C8 as stated: a caller is joined to an in-flight operation only if the
\* request of that operation carries the caller's own effective headers.
C8_NoCrossHeaderCoalescing ==
  \A t \in DOMAIN task :
    task[t].owner # 0 =>
      /\ task[t].eff.X = task[task[t].owner].req.X
      /\ task[t].eff.nonce = task[task[t].owner].req.nonce

\* ---- cache and revalidation: ETags, 304, cacheBypass, TTL, invalidation
CacheOpts == {[DefaultOpts EXCEPT !.bypass = b] : b \in BOOLEAN}
CacheResponses == {Ok("e1", "b1"), Ok("e2", "b2"), Http(304)}

\* calls of one caller, one after the other
NextCache ==
  \/ Tick
  \/ InvalidateByFormId
  \/ \E t \in SeqTasks : Call(t, GetPaths, CacheOpts)
  \/ \E t \in SeqTasks : Respond(t, CacheResponses)
  \/ \E t \in SeqTasks : WriteBack(t)
  \/ \E t \in SeqTasks : Settle(t)
  \/ \E t \in SeqTasks : Return(t)

SpecCache == InitWith(NSeqTasks) /\ [][NextCache]_vars

\* C4 as stated: a call that follows a fetch of the same endpoint within the
\* TTL, with no invalidation in between, sends If-None-Match equal to the ETag
\* of that fetch, and on 304 returns the body that fetch returned.
C4_Revalidation ==
  \A t \in DOMAIN task :
    LET tk == task[t] IN
    (tk.nreq > 0 /\ tk.expect.on) =>
      /\ tk.req.inm = tk.expect.etag
      /\ (tk.pc \in {"resolved", "done"} /\ tk.res.from304 => tk.payload = tk.expect.body)

\* C4 amended: the same, when neither of the two calls bypasses the cache.
C4_RevalidationNoBypass ==
  \A t \in DOMAIN task :
    LET tk == task[t] IN
    (tk.nreq > 0 /\ tk.expect.on /\ ~tk.bypass /\ ~tk.expect.bypass) =>
      /\ tk.req.inm = tk.expect.etag
      /\ (tk.pc \in {"resolved", "done"} /\ tk.res.from304 => tk.payload = tk.expect.body)

\* a second call, at the last instant of the TTL of the first, that sent the
\* first response's ETag, was answered 304 and returned the first body
C4_Witness ==
  \E t \in DOMAIN task :
    LET tk == task[t] IN
    /\ tk.pc = "done" /\ tk.out = "ok" /\ tk.res.from304 /\ tk.expect.on
    /\ tk.req.inm = "e2" /\ tk.payload = "b2"
    /\ cache[tk.path].expires = now + RouteTTL /\ now > 1 + RouteTTL

\* ---- ETags under concurrency: two per-call header variants of one path
ProbeOpts == {[DefaultOpts EXCEPT !.hdr = h] : h \in HdrVals}

NextEtag ==
  \/ \E t \in Tasks : Call(t, GetPaths, ProbeOpts)
  \/ \E t \in Tasks : Respond(t, CacheResponses)
  \/ \E t \in Tasks : WriteBack(t)
  \/ \E t \in Tasks : Settle(t)
  \/ \E t \in Tasks : JoinSettle(t)
  \/ \E t \in Tasks : Return(t)

SpecEtag == Init /\ [][NextEtag]_vars

\* C14 as stated: once the calls for an endpoint have settled, the etag of its
\* cache entry, when present, is the ETag of the most recent 200 response
\* received for the endpoint.
C14_EtagOfLatestResponse ==
  \A k \in Paths :
    (cache[k].present /\ cache[k].etag # None
       /\ \A t \in DOMAIN task : task[t].path = k => ~Pending(task[t]))
    => cache[k].etag = last[k].recent

\* ---- a cache that throws: calls of one caller, the injected cache failing
\* on the read or on the write of a call
FaultyOpts == {[DefaultOpts EXCEPT !.rfail = r, !.wfail = w] : r \in BOOLEAN, w \in BOOLEAN}
FaultyResponses == CacheResponses \cup {Http(404)}

NextFaulty ==
  \/ \E t \in SeqTasks : Call(t, GetPaths, FaultyOpts)
  \/ \E t \in SeqTasks : Respond(t, FaultyResponses)
  \/ \E t \in SeqTasks : WriteBack(t)
  \/ \E t \in SeqTasks : Settle(t)
  \/ \E t \in SeqTasks : Return(t)

SpecFaulty == InitWith(NSeqTasks) /\ [][NextFaulty]_vars

\* C15: a call whose cache read threw sends no If-None-Match and returns what
\* the response carried, as with an empty cache; a call whose cache write threw
\* still returns its payload, is recorded as a breaker success and leaves the
\* cache as it was; a cache failure is never the error of a call.
C15_CacheFailureContained ==
  [][\A t \in DOMAIN task :
       LET tk == task'[t] IN
       /\ (tk.rfail /\ tk.nreq > 0) =>
             /\ tk.req.inm = None
             /\ (tk.pc \in {"resolved", "done"} /\ tk.res # NoRes => tk.payload = tk.res.data)
       /\ (tk.wfail /\ tk.pc = "done" /\ tk.res # NoRes) =>
             /\ tk.payload = payloadOf(tk)
             /\ tk.out = (IF guardOK(tk.path, tk.payload) THEN "ok" ELSE "err")
       /\ (task[t].wfail /\ task[t].pc = "got" /\ tk.pc # "got") =>
             tk.pc = "resolved" /\ cache' = cache
       /\ (task[t].wfail /\ task[t].pc = "resolved" /\ tk.pc = "done") =>
             breaker'[tk.path] = NoEntry
       /\ ((tk.rfail \/ tk.wfail) /\ tk.pc = "done" /\ tk.out = "err") =>
             tk.err.code \in {"EHTTP", "EBADSHAPE", "ECIRCUIT_OPEN"}]_vars

\* a call that returned the fetched body although the cache, holding an older
\* entry, threw on the read and on the write
C15_Witness ==
  \E t \in DOMAIN task :
    LET tk == task[t] IN
    /\ tk.rfail /\ tk.wfail /\ tk.pc = "done" /\ tk.out = "ok"
    /\ cache[tk.path].present /\ cache[tk.path].etag = "e1"
    /\ tk.req.inm = None /\ tk.payload = "b2" /\ breaker[tk.path] = NoEntry

\* ---- observers: calls with no observer, a quiet one, one that throws
ObserverOpts == {[DefaultOpts EXCEPT !.obs = b] : b \in {None, "quiet", "throws"}}
ObserverResponses == {Ok(None, "b1"), Http(503)}

NextObserver ==
  \/ \E t \in Tasks : Call(t, GetPaths, ObserverOpts)
  \/ \E t \in Tasks : Respond(t, ObserverResponses)
  \/ \E t \in Tasks : Wake(t)
  \/ \E t \in Tasks : WriteBack(t)
  \/ \E t \in Tasks : Settle(t)
  \/ \E t \in Tasks : JoinSettle(t)
  \/ \E t \in Tasks : Return(t)

SpecObserver == Init /\ [][NextObserver]_vars

\* C17 as stated: a call behaves with an observer as without one: once started
\* and neither refused by the breaker nor handed an in-flight operation, it has
\* issued a network request, and the error of a call is never the observer's.
C17_ObserverInert ==
  \A t \in DOMAIN task :
    LET tk == task[t] IN
    /\ (tk.pc # "idle" /\ ~tk.direct /\ tk.owner = 0 /\ ~Refused(tk)) => tk.nreq >= 1
    /\ tk.err.code # "EOBSERVER"

\* ---- termination: every fetch is answered or times out, every sleep ends,
\* every continuation of a settled promise runs
LiveResponses == {Ok(None, "b1"), Http(503), Fail("timeout")}

NextLive ==
  \/ \E t \in Tasks : Call(t, GetPaths, {DefaultOpts})
  \/ \E t \in Tasks : Respond(t, LiveResponses)
  \/ \E t \in Tasks : Wake(t)
  \/ \E t \in Tasks : WriteBack(t)
  \/ \E t \in Tasks : Settle(t)
  \/ \E t \in Tasks : JoinSettle(t)
  \/ \E t \in Tasks : Return(t)

FairLive ==
  \A t \in Tasks :
    /\ WF_vars(Respond(t, LiveResponses))
    /\ WF_vars(Wake(t))
    /\ WF_vars(WriteBack(t))
    /\ WF_vars(Settle(t))
    /\ WF_vars(JoinSettle(t))

SpecLive == Init /\ [][NextLive]_vars /\ FairLive

\* C18: a call never makes more than MaxRetries + 1 fetches, and every call
\* that has started eventually settles (resolves or rejects), given that every
\* fetch is answered or aborted and every backoff wait ends.
C18_EventuallySettles ==
  /\ [](\A t \in Tasks : task[t].nreq <= MaxRetries + 1)
  /\ \A t \in Tasks : Pending(task[t]) ~> (task[t].pc = "done")

\* a call that rejected after its last attempt timed out, and the call that
\* was handed its operation, rejected with it
C18_Witness ==
  \E t \in DOMAIN task, u \in DOMAIN task :
    /\ task[t].pc = "done" /\ task[t].out = "err" /\ task[t].err.code = "ETIMEDOUT"
    /\ task[t].nreq = MaxRetries + 1
    /\ task[u].owner = t /\ task[u].pc = "done" /\ task[u].out = "err"

\* ---- arguments and shapes: calls with bad arguments, bodies that fail the
\* shape guard, transient failures before them
ShapeResponses == {Ok(None, "b1"), Ok(None, "junk"), Http(503)}

NextShape ==
  \/ \E t \in Tasks : Call(t, GetPaths, {DefaultOpts})
  \/ \E t \in Tasks : CallBadArgs(t)
  \/ \E t \in Tasks : Respond(t, ShapeResponses)
  \/ \E t \in Tasks : Wake(t)
  \/ \E t \in Tasks : WriteBack(t)
  \/ \E t \in Tasks : Settle(t)
  \/ \E t \in Tasks : JoinSettle(t)
  \/ \E t \in Tasks : Return(t)

SpecShape == Init /\ [][NextShape]_vars

\* C19: a call with a bad argument rejects with EBADARGS having fetched
\* nothing and left the breaker, the cache and the in-flight registry as they
\* were; a call whose logical GET gave a payload that fails the shape guard
\* rejects with EBADSHAPE at once, with no fetch after the one that was
\* answered.
C19_NoRetryOfArgsAndShape ==
  [][\A t \in DOMAIN task :
       LET tk == task[t]
           tn == task'[t] IN
       /\ (tk.pc = "idle" /\ tn.err.code = "EBADARGS") =>
             /\ tn.pc = "done" /\ tn.out = "err" /\ tn.nreq = 0
             /\ breaker' = breaker /\ cache' = cache /\ inflight' = inflight
       /\ (tk.pc = "resolved" /\ tn # tk /\ ~guardOK(tk.path, tk.payload)) =>
             /\ tn.pc = "done" /\ tn.out = "err" /\ tn.err.code = "EBADSHAPE"
             /\ tn.nreq = tk.nreq /\ tn.nreq = tk.attempt + 1
       /\ (tk.pc = "joined" /\ tn.pc # "joined" /\ task[tk.owner].err.code = "EBADSHAPE") =>
             tn.pc = "done" /\ tn.out = "err" /\ tn.err.code = "EBADSHAPE" /\ tn.nreq = 0
       /\ (tk.err.code \in {"EBADARGS", "EBADSHAPE"}) =>
             tk.pc = "done" /\ (tn = tk \/ tn = IdleTask)]_vars

\* a call rejected for its arguments next to a call that, after one retry,
\* rejected for the shape of the body
C19_Witness ==
  \E t \in DOMAIN task, u \in DOMAIN task :
    /\ task[t].pc = "done" /\ task[t].err.code = "EBADARGS" /\ task[t].nreq = 0
    /\ task[u].pc = "done" /\ task[u].err.code = "EBADSHAPE" /\ task[u].nreq = 2
    /\ task[u].payload = "junk"

\* ---- breaker counting: every kind of terminal outcome, the clock running;
\* two callers of one endpoint that are never coalesced, one of them sending a
\* per-call header
PlainCaller == 1
HeaderCaller == 2
CountCallers == {PlainCaller, HeaderCaller}
CountOpts(t) == IF t = HeaderCaller THEN {[DefaultOpts EXCEPT !.hdr = "a"]} ELSE {DefaultOpts}
CountResponses == {Ok(None, "b1"), Http(404), Http(503), Fail("network"), Fail("timeout")}

NextCount ==
  \/ Tick
  \/ \E t \in CountCallers : Call(t, GetPaths, CountOpts(t))
  \/ \E t \in CountCallers : Respond(t, CountResponses)
  \/ \E t \in CountCallers : Wake(t)
  \/ \E t \in CountCallers : WriteBack(t)
  \/ \E t \in CountCallers : Settle(t)
  \/ \E t \in CountCallers : Return(t)

SpecCount == InitWith(HeaderCaller) /\ [][NextCount]_vars

C21_BreakerOncePerGet ==
  [][/\ \A t \in DOMAIN task :
          LET tk == task[t]
              tn == task'[t] IN
          /\ (tk.pc \in {"fetching", "sleeping", "got"} /\ tn # tk) => breaker' = breaker
          /\ (tk.pc = "sleeping" /\ tn # tk) =>
                tn.pc = "fetching" /\ tn.nreq = tk.nreq + 1 /\ tn.attempt = tk.attempt
     /\ (breaker' # breaker) =>
          \E t \in DOMAIN task :
             \/ task[t].pc = "idle" /\ task'[t].pc # "idle"
             \/ task[t].pc \in {"resolved", "threw"} /\ task'[t].pc = "done"]_vars

\* a call fetching again after a failed attempt although the breaker of its
\* endpoint has opened since it started
C21_Witness ==
  \E t \in DOMAIN task :
    /\ task[t].pc = "fetching" /\ task[t].nreq = 2 /\ ~task[t].openAtStart
    /\ IsOpen(breaker, task[t].path, now)

\* a call that runs the registered operation of its coalescing key
Operating(tk) == Pending(tk) /\ tk.pc # "joined" /\ ~tk.direct

\* C22: the in-flight registry holds, for a coalescing key, exactly the call
\* whose operation for that key has not settled: the entry is set when the
\* operation starts and removed when it settles, in success and in failure,
\* joined callers or not; with no operation pending the registry is empty, and
\* a call that finds no entry for its key fetches.
C22_RegistryWhilePending ==
  [][/\ \A ik \in DOMAIN inflight :
          inflight'[ik] # 0 =>
            /\ Operating(task'[inflight'[ik]])
            /\ inflightKey(task'[inflight'[ik]].path, task'[inflight'[ik]].hdr) = ik
     /\ \A t \in DOMAIN task :
          LET tk == task[t]
              tn == task'[t] IN
          /\ Operating(tn) => inflight'[inflightKey(tn.path, tn.hdr)] = t
          /\ (tk.pc \in {"resolved", "threw"} /\ tn.pc = "done") =>
                inflight'[inflightKey(tk.path, tk.hdr)] = 0
          /\ (tk.pc = "idle" /\ Pending(tn) /\ inflight[inflightKey(tn.path, tn.hdr)] = 0) =>
                tn.pc = "fetching" /\ tn.nreq = 1
     /\ (\A t \in DOMAIN task : ~Operating(task'[t])) =>
          \A ik \in DOMAIN inflight : inflight'[ik] = 0]_vars

\* the operation of a call has failed and its entry is gone while the caller
\* that joined it has not yet been told
C22_Witness ==
  \E t \in DOMAIN task, u \in DOMAIN task :
    /\ task[t].pc = "done" /\ task[t].out = "err" /\ task[t].err.status = 503
    /\ task[u].pc = "joined" /\ task[u].owner = t
    /\ inflight[inflightKey(task[t].path, task[t].hdr)] = 0

\* ---- the store's TTL: calls of one caller with and without a ttlMs
\* override (0: no expiry), the clock running, invalidation
TtlOpts == {[DefaultOpts EXCEPT !.ttl = v] : v \in {NoTtl, 0, 2}}
TtlResponses == {Ok("e1", "b1"), Ok(None, "b2")}

NextTtl ==
  \/ Tick
  \/ InvalidateByFormId
  \/ \E t \in SeqTasks : Call(t, GetPaths, TtlOpts)
  \/ \E t \in SeqTasks : Respond(t, TtlResponses)
  \/ \E t \in SeqTasks : WriteBack(t)
  \/ \E t \in SeqTasks : Settle(t)
  \/ \E t \in SeqTasks : Return(t)

SpecTtl == InitWith(NSeqTasks) /\ [][NextTtl]_vars

\* C23: when a call reads the cache after an entry was stored at time `at`
\* with TTL `ttl` and not deleted since, it gets the stored body if ttl = 0 or
\* now <= at + ttl, the entry staying as it is; if ttl > 0 and now > at + ttl
\* it gets a miss and the entry is removed from the store.
C23_TtlSemantics ==
  [][\A t \in DOMAIN task :
       LET tk == task[t]
           tn == task'[t]
           l == last[tn.path] IN
       (tk.pc = "idle" /\ tn.pc \in {"fetching", "joined"} /\ l.valid) =>
          IF l.ttl <= 0 \/ now <= l.at + l.ttl
            THEN /\ tn.cBody = l.body /\ tn.cEtag = l.etag
                 /\ cache'[tn.path] = cache[tn.path] /\ cache[tn.path].present
            ELSE /\ tn.cBody = Undef /\ tn.cEtag = None
                 /\ cache'[tn.path] = NoHit]_vars

\* a call that got a miss at the first instant after the deadline of an entry
\* stored with the TTL of the route, the entry purged
C23_Witness ==
  \E t \in DOMAIN task :
    LET l == last[task[t].path] IN
    /\ task[t].pc = "fetching" /\ task[t].cBody = Undef
    /\ l.valid /\ l.ttl = RouteTTL /\ now = l.at + l.ttl + 1
    /\ ~cache[task[t].path].present

\* ---- the backoff delay as a function: attempts, bases and caps in
\* milliseconds, with and without jitter
Bases == {1, 2, 3}
Caps == {2, 4, 5}

\* Math.floor(exp / 2 + Math.random() * exp * 0.5) is Math.floor(exp / 2) plus
\* a whole number that stays below exp: the draws that can occur
JitterDraws(exp) == 0..Max(0, exp - 1 - (exp \div 2))

InitJitter ==
  /\ InitClient(NSeqTasks)
  /\ \E n \in 1..MaxAttempt, b \in Bases, c \in Caps, j \in BOOLEAN :
        calc = [NoCalc EXCEPT !.attempt = n, !.base = b, !.cap = c, !.jitter = j]

\* _computeBackoffDelay(attempt, base, cap, jitter) returns
ComputeBackoff ==
  /\ ~calc.done
  /\ \E rand \in JitterDraws(computeBackoffDelay(calc.attempt, calc.base, calc.cap, FALSE, 0)) :
        calc' = [calc EXCEPT !.done = TRUE,
                   !.delay = computeBackoffDelay(calc.attempt, calc.base, calc.cap,
                                                 calc.jitter, rand)]
  /\ UNCHANGED <<now, instHdr, breaker, cache, inflight, task, probe, last, hyd>>

NextJitter == ComputeBackoff

SpecJitter == InitJitter /\ [][NextJitter]_vars

\* the unjittered delay of the n-th retry
Unjittered(n, base, cap) == computeBackoffDelay(n, base, cap, FALSE, 0)

\* C24 as stated: the unjittered delay of the n-th retry is
\* min(cap, base * 2^(n-1)), at most cap and not below the one of retry n - 1;
\* the delay returned is that value without jitter and, with jitter, at least
\* half of it and at most all of it.
C24_BackoffBounds ==
  LET exp == Unjittered(calc.attempt, calc.base, calc.cap) IN
  calc.attempt >= 1 =>
    /\ exp = Min(calc.cap, calc.base * Pow2(calc.attempt - 1))
    /\ exp <= calc.cap
    /\ (calc.attempt > 1 => exp >= Unjittered(calc.attempt - 1, calc.base, calc.cap))
    /\ (calc.done /\ ~calc.jitter) => calc.delay = exp
    /\ (calc.done /\ calc.jitter) => (2 * calc.delay >= exp /\ calc.delay <= exp)

\* ---- hydrate: the three getter calls of one hydrate at a time
HydrateResponses == {Ok(None, "b1"), Ok(None, "junk"), Ok(None, "nullItem"), Http(404)}

ExtraResponses == {Ok(None, "b1")}

NextHydrate ==
  \/ HydrateStart
  \/ HydrateFan
  \/ HydrateJoin
  \/ HydrateReturn
  \/ Call(ExtraSlot, {"formMeta"}, {DefaultOpts})
  \/ Return(ExtraSlot)
  \/ \E t \in HydrateTasks : Respond(t, HydrateResponses)
  \/ Respond(ExtraSlot, ExtraResponses)
  \/ \E t \in 1..ExtraSlot : WriteBack(t)
  \/ \E t \in 1..ExtraSlot : Settle(t)
  \/ \E t \in 1..ExtraSlot : JoinSettle(t)

SpecHydrate == InitWith(ExtraSlot) /\ [][NextHydrate]_vars

GetterOk(tk) == tk.pc = "done" /\ tk.out = "ok" /\ guardOK(tk.path, tk.payload)

\* C6: hydrate resolves only when the id lookup, the metadata call and the
\* fields call have all settled successfully and passed their guards, and then
\* its payload holds the id, the metadata and the fields; a hydrate that
\* rejected returns no payload, and no hydrate resolves with a getter rejected.
C6_AllOrNothing ==
  /\ (hyd.out = "ok" =>
        /\ \A s \in HydrateTasks : GetterOk(task[s])
        /\ hyd.payload.id = task[IdSlot].payload
        /\ hyd.payload.metadata = task[MetaSlot].payload
        /\ hyd.payload.fields = normalizeFields(task[FieldsSlot].payload)
        /\ hyd.payload.fieldsRaw = task[FieldsSlot].payload)
  /\ (hyd.out # "ok" => hyd.payload = NoPayload)
  /\ (hyd.pc = "done" /\ (\E s \in HydrateTasks : task[s].pc = "done" /\ task[s].out = "err")
        => hyd.out = "err")

\* a hydrate resolved with all three parts
C6_Witness ==
  /\ hyd.pc = "done" /\ hyd.out = "ok"
  /\ hyd.payload.id = "b1" /\ hyd.payload.metadata = "b1" /\ hyd.payload.fieldsRaw = "b1"

\* C7 as stated: the metadata and fields calls fetch nothing before the id
\* lookup has settled successfully, and once either of them has completed, the
\* request of each is on the network or answered (its own, or the in-flight one
\* it was handed).
C7_BothRequested ==
  /\ ((\E s \in {MetaSlot, FieldsSlot} : task[s].nreq > 0)
        => GetterOk(task[IdSlot]))
  /\ \A s \in {MetaSlot, FieldsSlot} : \A r \in {MetaSlot, FieldsSlot} :
        task[s].pc = "done" => (task[r].nreq > 0 \/ task[r].owner # 0)

\* a getter call that has been started: its logical GET fetched, was handed an
\* in-flight operation, or was refused by the breaker
Issued(tk) == tk.nreq > 0 \/ tk.owner # 0 \/ Refused(tk)

\* C7 amended: the metadata and fields calls are not started before the id
\* lookup has settled successfully, and once either of them has a response or
\* has settled, both have been started: the request of each is on the network
\* or answered, unless the breaker refused the call.
C7_IdThenBoth ==
  /\ ((\E s \in {MetaSlot, FieldsSlot} : task[s].pc # "idle")
        => GetterOk(task[IdSlot]))
  /\ \A s \in {MetaSlot, FieldsSlot} : \A r \in {MetaSlot, FieldsSlot} :
        task[s].pc \notin {"idle", "fetching", "joined"} => Issued(task[r])

\* both requests are on the network at once
C7_Witness ==
  /\ task[MetaSlot].pc = "fetching" /\ task[FieldsSlot].pc = "fetching"
  /\ task[MetaSlot].nreq = 1 /\ task[FieldsSlot].nreq = 1

\* ---- breaker and clock: calls of one path, fatal failures
BreakerResponses == {Ok(None, "b1"), Http(404)}

Next ==
  \/ Tick
  \/ \E t \in Tasks : Call(t, GetPaths, {DefaultOpts})
  \/ \E t \in Tasks : Respond(t, BreakerResponses)
  \/ \E t \in Tasks : WriteBack(t)
  \/ \E t \in Tasks : Settle(t)
  \/ \E t \in Tasks : JoinSettle(t)
  \/ \E t \in Tasks : Return(t)

Spec == Init /\ [][Next]_vars

\* C2: a call that starts while the breaker of its key is open (openedAt set
\* and now - openedAt < CoolOffMs) is refused with ECIRCUIT_OPEN and fetches
\* nothing.
C2_OpenFailsFast ==
  \A t \in DOMAIN task :
    task[t].openAtStart =>
      /\ task[t].pc = "done" /\ task[t].out = "err"
      /\ task[t].err.code = "ECIRCUIT_OPEN"
      /\ task[t].nreq = 0

\* a call refused at the last instant of the cool-off that the Threshold-th
\* consecutive failure started
C2_Witness ==
  \E t \in DOMAIN task :
    /\ task[t].openAtStart /\ task[t].pc = "done"
    /\ breaker[task[t].path].fails = Threshold
    /\ now = breaker[task[t].path].openedAt + CoolOffMs - 1

\* ---- invalidation by key after getter calls of one caller, with retries
InvalidateResponses == {Ok(None, "b1"), Ok(None, "junk"), Http(503), Fail("network")}

NextInvalidate ==
  \/ \E t \in SeqTasks : Call(t, {"idByKey", "formMeta"}, {DefaultOpts})
  \/ \E t \in SeqTasks : InvalidateByFormKey(t)
  \/ \E t \in SeqTasks : InvalidateResolve(t)
  \/ \E t \in SeqTasks : InvalidateFinish(t)
  \/ \E t \in SeqTasks : Respond(t, InvalidateResponses)
  \/ \E t \in SeqTasks : Wake(t)
  \/ \E t \in SeqTasks : WriteBack(t)
  \/ \E t \in SeqTasks : Settle(t)
  \/ \E t \in SeqTasks : Return(t)

SpecInvalidate == InitWith(NSeqTasks) /\ [][NextInvalidate]_vars

\* ---- invalidation by key while an id lookup is pending
RaceResponses == {Ok(None, "b1"), Http(503)}

NextRace ==
  \/ \E t \in Tasks : Call(t, {"idByKey"}, {DefaultOpts})
  \/ \E t \in Tasks : InvalidateByFormKey(t)
  \/ \E t \in Tasks : InvalidateResolve(t)
  \/ \E t \in Tasks : InvalidateFinish(t)
  \/ \E t \in Tasks : Respond(t, RaceResponses)
  \/ \E t \in Tasks : Wake(t)
  \/ \E t \in Tasks : WriteBack(t)
  \/ \E t \in Tasks : Settle(t)
  \/ \E t \in Tasks : JoinSettle(t)
  \/ \E t \in Tasks : Return(t)

SpecRace == Init /\ [][NextRace]_vars

\* the network requests in flight for a coalescing key
InFlightFor(path, hdr) ==
  {t \in DOMAIN task : task[t].pc = "fetching"
                        /\ inflightKey(task[t].path, task[t].hdr) = inflightKey(path, hdr)}

\* C13 as stated: at most one network request per coalescing key is in flight.
C13_OneRequestPerKey ==
  \A path \in Paths, hdr \in HdrVals : Cardinality(InFlightFor(path, hdr)) <= 1

BackoffResponses ==
  {Ok(None, "b1"), Http(503), HttpRA(404, "secs", 1),
   HttpRA(503, "secs", 0), HttpRA(503, "secs", 3),
   HttpRA(503, "date", 2), HttpRA(503, "text", 0)}

NextBackoff ==
  \/ Tick
  \/ \E t \in SeqTasks : Call(t, GetPaths, {DefaultOpts})
  \/ \E t \in SeqTasks : Respond(t, BackoffResponses)
  \/ \E t \in SeqTasks : Wake(t)
  \/ \E t \in SeqTasks : WriteBack(t)
  \/ \E t \in SeqTasks : Settle(t)
  \/ \E t \in SeqTasks : Return(t)

SpecBackoff == InitWith(NSeqTasks) /\ [][NextBackoff]_vars

\* C12: before a retry, the delay is the Retry-After value of the failed
\* response when it carries one (delay-seconds times 1000, or the time from the
\* response to the HTTP-date, 0 if that is past), whatever BackoffCapMs is, and
\* the exponential backoff otherwise; a response with a status outside
\* RetryOnHTTP is not retried, Retry-After or not.
C12_RetryAfterHonoured ==
  \A t \in DOMAIN task :
    LET tk == task[t] IN
    /\ (tk.pc = "sleeping" =>
          /\ tk.err.ra.kind = "secs" => tk.delay = tk.err.ra.v * 1000
          /\ tk.err.ra.kind = "date" =>
                tk.delay = (IF tk.err.ra.v > tk.err.at THEN tk.err.ra.v - tk.err.at ELSE 0)
          /\ tk.err.ra.kind \in {"none", "text"} =>
                tk.delay = (IF tk.attempt = 1 THEN BackoffBaseMs ELSE BackoffCapMs)
          /\ tk.delay >= 0)
    /\ (tk.err.code = "EHTTP" /\ tk.err.status \notin RetryOnHTTP /\ tk.err.by = t
          => tk.pc \in {"threw", "done"})

\* the second retry of a call waits the 3000 ms of Retry-After: 3, above
\* BackoffCapMs
C12_Witness ==
  \E t \in DOMAIN task :
    /\ task[t].pc = "sleeping" /\ task[t].attempt = 2
    /\ task[t].err.ra = [kind |-> "secs", v |-> 3] /\ task[t].delay = 3000
    /\ task[t].delay > BackoffCapMs

\* ---- outage: an endpoint that answers 502 to every request
OutageResponses == {Http(502)}

NextOutage ==
  \/ Tick
  \/ \E t \in Tasks : Call(t, GetPaths, {DefaultOpts})
  \/ \E t \in Tasks : Respond(t, OutageResponses)
  \/ \E t \in Tasks : Wake(t)
  \/ \E t \in Tasks : Settle(t)
  \/ \E t \in Tasks : JoinSettle(t)
  \/ \E t \in Tasks : Return(t)

\* a fresh client, the history of rejections kept from the start
InitOutage ==
  /\ now = 1
  /\ instHdr = None
  /\ breaker = [k \in Paths |-> NoEntry]
  /\ cache = [k \in Paths |-> NoHit]
  /\ inflight = [k \in Paths \X HdrVals |-> 0]
  /\ task = [t \in Tasks |-> IdleTask]
  /\ probe = [k \in Paths |-> 0]
  /\ last = [k \in Paths |-> [NoLast EXCEPT !.rejects = 0]]
  /\ hyd = IdleHyd
  /\ calc = NoCalc

SpecOutage == InitOutage /\ [][NextOutage]_vars

NextProbe ==
  \/ Tick
  \/ \E t \in Tasks : Call(t, GetPaths, ProbeOpts)
  \/ \E t \in Tasks : Respond(t, BreakerResponses)
  \/ \E t \in Tasks : WriteBack(t)
  \/ \E t \in Tasks : Settle(t)
  \/ \E t \in Tasks : JoinSettle(t)
  \/ \E t \in Tasks : Return(t)

SpecProbe == Init /\ [][NextProbe]_vars

\* C10 as stated: a call that starts while the probe admitted after the
\* cool-off has not had its outcome recorded issues no fetch.
C10_SingleProbe ==
  \A t \in DOMAIN task : task[t].during => task[t].nreq = 0

\* ---- order of the checks: two per-call header variants of one path, fatal
\* failures, the breaker staying open once it has opened
NextOrder ==
  \/ \E t \in Tasks : Call(t, GetPaths, ProbeOpts)
  \/ \E t \in Tasks : Respond(t, BreakerResponses)
  \/ \E t \in Tasks : WriteBack(t)
  \/ \E t \in Tasks : Settle(t)
  \/ \E t \in Tasks : JoinSettle(t)
  \/ \E t \in Tasks : Return(t)

SpecOrder == Init /\ [][NextOrder]_vars

\* C25: a call that starts while the breaker of its endpoint is open is
\* refused with ECIRCUIT_OPEN, fetching nothing and joined to nothing, also
\* when an operation with its coalescing key is in flight; the breaker and the
\* registry stay as they were.
C25_BreakerBeforeCoalescing ==
  [][\A t \in DOMAIN task :
       LET tk == task[t]
           tn == task'[t] IN
       (tk.pc = "idle" /\ tn.pc # "idle" /\ tn.err.code # "EBADARGS" /\ ~tn.direct
          /\ IsOpen(breaker, tn.path, now)) =>
         /\ Refused(tn) /\ tn.out = "err"
         /\ (inflight[inflightKey(tn.path, tn.hdr)] # 0 => tn.owner = 0 /\ tn.pc # "joined")
         /\ breaker' = breaker /\ inflight' = inflight]_vars

\* a call refused while the operation with its coalescing key is still
\* fetching
C25_Witness ==
  \E t \in DOMAIN task, u \in DOMAIN task :
    /\ Refused(task[t]) /\ task[t].openAtStart
    /\ task[u].pc = "fetching"
    /\ inflightKey(task[u].path, task[u].hdr) = inflightKey(task[t].path, task[t].hdr)
    /\ inflight[inflightKey(task[t].path, task[t].hdr)] = u

\* ---- coalesced callers and the breaker: two callers without per-call
\* headers, which coalesce, and one with a per-call header, the clock running
SecondPlainCaller == 3

NextJoin ==
  \/ Tick
  \/ \E t \in 1..SecondPlainCaller : Call(t, GetPaths, CountOpts(t))
  \/ \E t \in 1..SecondPlainCaller : Respond(t, BreakerResponses)
  \/ \E t \in 1..SecondPlainCaller : WriteBack(t)
  \/ \E t \in 1..SecondPlainCaller : Settle(t)
  \/ \E t \in 1..SecondPlainCaller : JoinSettle(t)
  \/ \E t \in 1..SecondPlainCaller : Return(t)

SpecJoin == InitWith(SecondPlainCaller) /\ [][NextJoin]_vars

\* C26 as stated: when an operation fails, the failure count of its endpoint
\* goes up by exactly 1, whatever the number of callers joined to it; a caller
\* that joins an operation, and a joined caller that settles, leave the
\* breaker and the in-flight registry as they were.
C26_OneOutcomePerOperation ==
  [][\A t \in DOMAIN task :
       LET tk == task[t]
           tn == task'[t] IN
       /\ (tk.pc = "threw" /\ ~tk.direct /\ tn.pc = "done") =>
             breaker'[tk.path].fails = breaker[tk.path].fails + 1
       /\ (tk.pc = "idle" /\ tn.pc = "joined") =>
             breaker' = breaker /\ inflight' = inflight
       /\ (tk.pc = "joined" /\ tn.pc = "done") =>
             breaker' = breaker /\ inflight' = inflight]_vars

\* C26 amended: the same, except that a caller that joins an operation after
\* the cool-off of an open breaker has elapsed resets the breaker entry of the
\* endpoint (the half-open transition of canRequest) on its way in.
C26_OneOutcomeExceptHalfOpen ==
  [][\A t \in DOMAIN task :
       LET tk == task[t]
           tn == task'[t] IN
       /\ (tk.pc = "threw" /\ ~tk.direct /\ tn.pc = "done") =>
             breaker'[tk.path].fails = breaker[tk.path].fails + 1
       /\ (tk.pc = "idle" /\ tn.pc = "joined") =>
             /\ inflight' = inflight
             /\ IF breaker[tn.path].openedAt # 0
                   THEN /\ now - breaker[tn.path].openedAt >= CoolOffMs
                        /\ breaker' = [breaker EXCEPT ![tn.path] = NoEntry]
                   ELSE breaker' = breaker
       /\ (tk.pc = "joined" /\ tn.pc = "done") =>
             breaker' = breaker /\ inflight' = inflight]_vars

\* an operation and the caller joined to it have both rejected, one failure
\* counted
C26_Witness ==
  \E t \in DOMAIN task, u \in DOMAIN task :
    /\ task[t].pc = "done" /\ task[t].out = "err" /\ Owns(task[t])
    /\ task[u].pc = "done" /\ task[u].out = "err" /\ task[u].owner = t
    /\ breaker[task[t].path].fails = 1

\* C27: a logical GET that passes the breaker check and is not handed an
\* in-flight operation issues a network request, whether or not the cache
\* holds an unexpired entry for its key; the payload of an operation is the
\* cached body only when the response was a 304.
C27_CacheNeverReplacesFetch ==
  [][\A t \in DOMAIN task :
       LET tk == task[t]
           tn == task'[t] IN
       /\ (tk.pc = "idle" /\ tn.pc # "idle" /\ ~tn.direct /\ tn.err.code # "EBADARGS"
             /\ ~Refused(tn) /\ tn.pc # "joined") =>
             tn.pc = "fetching" /\ tn.nreq = 1
       /\ (tk.pc = "got" /\ tn.pc = "resolved" /\ ~tk.res.from304) =>
             tn.payload = tk.res.data]_vars

\* ---- invalidation while logical GETs are pending: by id and by key, every
\* fetch answered 200

NextFence ==
  \/ InvalidateByFormId
  \/ \E t \in Tasks : Call(t, {"idByKey", "formMeta"}, {DefaultOpts})
  \/ \E t \in Tasks : InvalidateByFormKey(t)
  \/ \E t \in Tasks : InvalidateResolve(t)
  \/ \E t \in Tasks : InvalidateFinish(t)
  \/ \E t \in Tasks : Respond(t, {Ok(None, "b1")})
  \/ \E t \in Tasks : WriteBack(t)
  \/ \E t \in Tasks : Settle(t)
  \/ \E t \in Tasks : JoinSettle(t)
  \/ \E t \in Tasks : Return(t)

SpecFence == Init /\ [][NextFence]_vars

\* C28: an invalidation leaves the pending logical GETs and the in-flight
\* registry as they are; a logical GET without cacheBypass whose cache entry
\* was deleted while it was pending writes its result to the cache when it
\* completes, without another request, so that the entry is present again.
C28_InvalidationDoesNotFence ==
  [][\A t \in DOMAIN task :
       LET tk == task[t]
           tn == task'[t] IN
       /\ (Pending(tk) /\ ~tk.direct /\ ~tk.inval /\ tn.inval) =>
             /\ cache[tk.path].present /\ ~cache'[tk.path].present
             /\ tn = [tk EXCEPT !.inval = TRUE]
             /\ inflight' = inflight /\ breaker' = breaker
       /\ (tk.inval /\ tk.pc = "got" /\ tn.pc = "resolved" /\ ~tk.bypass) =>
             /\ tn.nreq = tk.nreq
             /\ cache'[tk.path].present /\ cache'[tk.path].body = tn.payload]_vars

\* the entry deleted while the call was fetching is back, the one request of
\* the call having been issued before the invalidation
C28_Witness ==
  \E t \in DOMAIN task :
    /\ task[t].inval /\ task[t].pc = "done" /\ task[t].out = "ok" /\ task[t].nreq = 1
    /\ cache[task[t].path].present /\ cache[task[t].path].body = task[t].payload

\* ---- shape guards after the logical GET: metadata and fields calls of one
\* caller, with and without cacheBypass; 200 with an array holding null, which
\* passes the fields guard and fails the metadata guard, and 404

NextGuard ==
  \/ \E t \in SeqTasks : Call(t, {"formMeta", "formFields"}, CacheOpts)
  \/ \E t \in SeqTasks : Respond(t, {Ok(None, "nullItem"), Http(404)})
  \/ \E t \in SeqTasks : WriteBack(t)
  \/ \E t \in SeqTasks : Settle(t)
  \/ \E t \in SeqTasks : Return(t)

SpecGuard == InitWith(NSeqTasks) /\ [][NextGuard]_vars

\* C29: the body of a 2xx response that fails the shape guard is written to
\* the cache under the endpoint's key when the operation completes (not with
\* cacheBypass, which leaves the cache as it is); when the call then settles
\* it rejects with EBADSHAPE, the body still cached and the breaker entry of
\* the endpoint reset by the success it recorded (failure count 0).
C29_WriteAndSuccessBeforeGuard ==
  [][\A t \in DOMAIN task :
       LET tk == task[t]
           tn == task'[t] IN
       /\ (tk.pc = "got" /\ tn.pc = "resolved" /\ ~guardOK(tk.path, tn.payload)) =>
             IF tk.bypass THEN cache' = cache
             ELSE cache'[tk.path].present /\ cache'[tk.path].body = tn.payload
       /\ (tk.pc = "resolved" /\ tn.pc = "done" /\ ~guardOK(tk.path, tk.payload)) =>
             /\ tn.out = "err" /\ tn.err.code = "EBADSHAPE"
             /\ breaker'[tk.path].fails = 0 /\ breaker'[tk.path].openedAt = 0
             /\ (~tk.bypass =>
                   cache'[tk.path].present /\ cache'[tk.path].body = tk.payload)]_vars

\* a metadata call has rejected with EBADSHAPE; the array holding null that
\* it was answered with is in the cache and the breaker counts no failure
C29_Witness ==
  \E t \in DOMAIN task :
    /\ task[t].pc = "done" /\ task[t].err.code = "EBADSHAPE" /\ ~task[t].bypass
    /\ task[t].path = "formMeta" /\ task[t].payload = "nullItem"
    /\ cache["formMeta"].present /\ cache["formMeta"].body = "nullItem"
    /\ breaker["formMeta"] = NoEntry

\* C30: in every reachable state and for every endpoint key, the breaker's
\* openedAt is set if and only if its failure count is at least Threshold.
C30_OpenedIffThreshold ==
  \A k \in Paths : (breaker[k].openedAt # 0) <=> (breaker[k].fails >= Threshold)

\* an operation that was in flight when the breaker opened has failed too: the
\* count is past Threshold, the breaker stamped again
C30_Witness ==
  \E k \in Paths :
    /\ breaker[k].fails > Threshold /\ breaker[k].openedAt = now /\ now > 1
====
